---- MODULE Spec2Model ----
(***************************************************************************)
(* The upload-and-analyze endpoint of server.js.  The file holds three     *)
(* variants of the same Express handler for POST /api/upload:              *)
(*   "gc"  - credentials from the single GOOGLE_CREDENTIALS blob, memory   *)
(*           storage (lines 1-202);                                        *)
(*   "env" - credentials from discrete environment variables, memory       *)
(*           storage (lines 207-320);                                      *)
(*   "key" - credentials from a key file, disk storage (lines 336-460).    *)
(* One variant is deployed per process.  Each request runs its handler up  *)
(* to the next await in one step; the step that follows fires when the     *)
(* awaited remote call settles (resolves or rejects).                      *)
(***************************************************************************)
EXTENDS Naturals, Sequences, FiniteSets, TLC

VARIABLES variant, credentials, serving, pc, hasFile, locals, outstanding, log, responses, tmpFiles

vars == <<variant, credentials, serving, pc, hasFile, locals, outstanding, log, responses, tmpFiles>>

(* ---------------------------- bounds ---------------------------------- *)

\* number of upload requests the process receives
NumReqs == 2

Reqs == 1..NumReqs

Variants == {"gc", "env", "key"}

(* ------------------------- values and text ---------------------------- *)

UNDEFINED == "undefined"

NULL == "null"

\* texts the extraction service may return, as sequences of characters:
\* the empty text, whitespace only, a bare word, a word inside whitespace
Texts == {<<>>, <<" ", "\n">>, <<"a">>, <<" ", "a", "\n">>}

IsWhiteSpace(c) == c \in {" ", "\t", "\n", "\r"}

RECURSIVE TrimStart(_)
TrimStart(s) ==
  IF s = <<>> THEN s
  ELSE IF IsWhiteSpace(Head(s)) THEN TrimStart(Tail(s)) ELSE s

RECURSIVE TrimEnd(_)
TrimEnd(s) ==
  IF s = <<>> THEN s
  ELSE IF IsWhiteSpace(s[Len(s)]) THEN TrimEnd(SubSeq(s, 1, Len(s) - 1)) ELSE s

\* a plausible slip: the emptiness test without the trim, if (!text)
TrimOmitted(s) == s

\* String.prototype.trim, as used in  if (!text.trim())
Trim(s) == TrimEnd(TrimStart(s))

(* ----------------------- startup: credentials ------------------------- *)

\* shapes of the GOOGLE_CREDENTIALS environment variable
CredEnvs == {"unset", "valid", "escapedNewlines", "missingFields", "jsonNull", "garbage"}

\* JSON.parse of the blob: either throws or yields a value.  A blob without
\* client_email or private_key still parses to an object: line 45 only warns.
JSONParse(g) ==
  CASE g = "valid" -> [threw |-> FALSE, value |-> "object"]
    [] g = "missingFields" -> [threw |-> FALSE, value |-> "object"]
    [] g = "jsonNull" -> [threw |-> FALSE, value |-> NULL]
    [] OTHER -> [threw |-> TRUE, value |-> UNDEFINED]

\* blob.replace(/\\n/g, '\n'): repairs a blob whose only fault is literal \n
ReplaceEscapedNewlines(g) == IF g = "escapedNewlines" THEN "valid" ELSE g

\* lines 34-51: direct parse, then one retry after the newline repair; the
\* retry on an unset variable throws a TypeError the outer catch turns to null
LoadCredentials(g) ==
  LET first == JSONParse(g) IN
  IF ~first.threw THEN first.value
  ELSE IF g = "unset" THEN NULL
  ELSE LET second == JSONParse(ReplaceEscapedNewlines(g)) IN
       IF second.threw THEN NULL ELSE second.value

\* a plausible slip: the guard on the credentials dropped from the handler
CredentialsNeverMissing(c) == FALSE

\* line 102:  if (!credentials)
CredentialsMissing(c) == c = NULL

\* the module finishes loading only if getGenerativeModel is reached on a
\* VertexAI client: a throwing constructor leaves vertexAI null in the gc
\* variant (line 82) and line 86 then throws; in the others it is uncaught.
\* The env variant also dereferences process.env.private_key at line 234.
ModuleLoads(v, ctorOK, privateKeySet) ==
  /\ ctorOK
  /\ (v = "env") => privateKeySet

(* --------------------------- remote results --------------------------- *)

\* a rejected remote call: the error carries response.data, or a message only
ErrShapes == {"response.data", "message"}

\* outcomes of documentai...processors.process
ExtractOutcomes ==
  [kind : {"throw"}, err : ErrShapes, text : {<<>>}]
    \cup [kind : {"noDocument", "noText"}, err : {"-"}, text : {<<>>}]
    \cup [kind : {"text"}, err : {"-"}, text : Texts]

\* shapes of a resolved generateContent result
GenShapes == {"text", "emptyText", "noParts", "noCandidates"}

GenOutcomes ==
  [kind : {"throw"}, err : ErrShapes, shape : {"-"}]
    \cup [kind : {"ok"}, err : {"-"}, shape : GenShapes]

GenCalls == {"summary", "keyTerms", "risk"}

\* the text the model writes for each prompt
Generated(call) ==
  CASE call = "summary" -> "generated summary"
    [] call = "keyTerms" -> "generated key terms"
    [] call = "risk" -> "generated risk assessment"

\* err.response?.data || err.message
Detail(err) == IF err = "response.data" THEN "upstream response data" ELSE "upstream error message"

\* result.data.document?.text || ''
DocumentText(out) == IF out.kind = "text" THEN out.text ELSE <<>>

\* r.response?.candidates?.[0]?.content?.parts?.[0]?.text
FirstText(call, shape) ==
  IF shape = "text" THEN Generated(call)
  ELSE IF shape = "emptyText" THEN ""
  ELSE UNDEFINED

\* a plausible slip: one placeholder pasted at all three call sites
FallbackPasted(call) == "Summary not generated"

\* the placeholder of each call site
Fallback(call) ==
  CASE call = "summary" -> "Summary not generated"
    [] call = "keyTerms" -> "Key terms not extracted"
    [] call = "risk" -> "Risk assessment not generated"

\* v || d
OrElse(v, d) == IF v \in {UNDEFINED, ""} THEN d ELSE v

\* whether a resolved result has a non-empty first text segment
Segment(shape) == IF shape = "text" THEN "text" ELSE "absent"

\* what a resolved extraction carried: no document, no text field, a text of
\* whitespace only, or a text with something else in it
ExtractClass(out) ==
  IF out.kind # "text" THEN out.kind
  ELSE IF \A i \in 1..Len(out.text) : IsWhiteSpace(out.text[i]) THEN "blank" ELSE "nonblank"

(* ----------------------------- responses ------------------------------ *)

NoFileBody == [error |-> "No file uploaded"]

EmptyTextBody == [error |-> "Document contained no extractable text."]

MisconfiguredBody == [error |-> "Server misconfigured: missing credentials"]

FailedBody == [error |-> "Failed to analyze document"]

ExtractionFailedBody(err) == [error |-> "Document AI processing failed", detail |-> Detail(err)]

GenerationFailedBody(err) == [error |-> "Vertex AI generation failed", detail |-> Detail(err)]

\* a plausible slip: the extracted text left out of the success body
SuccessBodyWithoutText(l, ra) ==
  [summary |-> l.summary, keyTerms |-> l.keyTerms, riskAssessment |-> ra]

\* res.json({ text, summary, keyTerms, riskAssessment })
SuccessBody(l, ra) ==
  [text |-> l.text, summary |-> l.summary, keyTerms |-> l.keyTerms, riskAssessment |-> ra]

NoLocals == [text |-> <<>>, summary |-> UNDEFINED, keyTerms |-> UNDEFINED]

Event(ev, call, info) == [ev |-> ev, call |-> call, info |-> info]

\* a plausible slip: a response path that returns without sending anything
ReplyDropped(r, status, body) ==
  /\ responses' = responses
  /\ pc' = [pc EXCEPT ![r] = "done"]
  /\ locals' = [locals EXCEPT ![r] = NoLocals]

\* return res.status(status).json(body): the handler ends, its frame is gone
Reply(r, status, body) ==
  /\ responses' = [responses EXCEPT ![r] = Append(@, [status |-> status, body |-> body])]
  /\ pc' = [pc EXCEPT ![r] = "done"]
  /\ locals' = [locals EXCEPT ![r] = NoLocals]

\* a plausible slip: a remote call started without await, so the handler
\* runs on while the call is still in flight
SettledNotAwaited(out, call) == out

\* await: the handler resumes only once the call has settled
Settled(out, call) == out \ {call}

\* start a remote call and suspend the handler on it
Issue(r, out, call, evs, state) ==
  /\ outstanding' = [outstanding EXCEPT ![r] = out \cup {call}]
  /\ log' = [log EXCEPT ![r] = @ \o evs \o <<Event("issue", call, "-")>>]
  /\ pc' = [pc EXCEPT ![r] = state]

(* ------------------------------- Init --------------------------------- *)

Init ==
  /\ variant \in Variants
  /\ \E g \in CredEnvs :
       credentials = IF variant = "gc" THEN LoadCredentials(g) ELSE "unused"
  /\ \E ctorOK \in BOOLEAN, privateKeySet \in BOOLEAN :
       serving = ModuleLoads(variant, ctorOK, privateKeySet)
  /\ pc = [r \in Reqs |-> "idle"]
  /\ hasFile = [r \in Reqs |-> FALSE]
  /\ locals = [r \in Reqs |-> NoLocals]
  /\ outstanding = [r \in Reqs |-> {}]
  /\ log = [r \in Reqs |-> <<>>]
  /\ responses = [r \in Reqs |-> <<>>]
  /\ tmpFiles = {}

(* --------------------- request entry, per variant --------------------- *)

Frame == <<variant, credentials, serving>>

\* lines 96-134.  The guards on documentai and model (lines 106-112) never
\* fire: both are const handles that exist whenever the module has loaded.
UploadGC(r) ==
  /\ variant = "gc" /\ serving /\ pc[r] = "idle"
  /\ \E f \in BOOLEAN :
       /\ hasFile' = [hasFile EXCEPT ![r] = f]
       /\ IF ~f
            THEN Reply(r, 400, NoFileBody) /\ UNCHANGED <<outstanding, log>>
          ELSE IF CredentialsMissing(credentials)
            THEN Reply(r, 500, MisconfiguredBody) /\ UNCHANGED <<outstanding, log>>
          ELSE Issue(r, outstanding[r], "extract", <<>>, "awaitExtract")
                 /\ UNCHANGED <<locals, responses>>
  /\ UNCHANGED <<Frame, tmpFiles>>

\* lines 263-279: req.file.buffer on a request without a file throws a
\* TypeError, which the catch at line 313 answers
UploadEnv(r) ==
  /\ variant = "env" /\ serving /\ pc[r] = "idle"
  /\ \E f \in BOOLEAN :
       /\ hasFile' = [hasFile EXCEPT ![r] = f]
       /\ IF ~f
            THEN Reply(r, 500, FailedBody) /\ UNCHANGED <<outstanding, log>>
          ELSE Issue(r, outstanding[r], "extract", <<>>, "awaitExtract")
                 /\ UNCHANGED <<locals, responses>>
  /\ UNCHANGED <<Frame, tmpFiles>>

\* lines 379-395: multer's disk storage has written the upload under
\* uploads/ before the handler runs; req.file.path without a file throws
UploadKey(r) ==
  /\ variant = "key" /\ serving /\ pc[r] = "idle"
  /\ \E f \in BOOLEAN :
       /\ hasFile' = [hasFile EXCEPT ![r] = f]
       /\ IF ~f
            THEN Reply(r, 500, FailedBody) /\ UNCHANGED <<outstanding, log, tmpFiles>>
          ELSE /\ Issue(r, outstanding[r], "extract", <<>>, "awaitExtract")
               /\ tmpFiles' = tmpFiles \cup {r}
               /\ UNCHANGED <<locals, responses>>
  /\ UNCHANGED Frame

(* ----------------------- after the extraction ------------------------- *)

\* the handler's continuation once the extraction has settled; errBody is
\* the body the variant's catch sends, unlink whether the variant removes
\* the temporary file after a resolved extraction
AfterExtract(r, out, errBody, unlink) ==
  /\ pc[r] = "awaitExtract" /\ "extract" \in outstanding[r]
  /\ LET rest == Settled(outstanding[r], "extract") IN
     IF out.kind = "throw"
       THEN /\ Reply(r, 500, errBody)
            /\ outstanding' = [outstanding EXCEPT ![r] = rest]
            /\ log' = [log EXCEPT ![r] = Append(@, Event("throw", "extract", out.err))]
            /\ UNCHANGED tmpFiles
       ELSE /\ tmpFiles' = IF unlink THEN tmpFiles \ {r} ELSE tmpFiles
            /\ LET t == DocumentText(out)
                   ev == Event("return", "extract", ExtractClass(out)) IN
               IF Trim(t) = <<>>
                 THEN /\ Reply(r, 400, EmptyTextBody)
                      /\ outstanding' = [outstanding EXCEPT ![r] = rest]
                      /\ log' = [log EXCEPT ![r] = Append(@, ev)]
                 ELSE /\ Issue(r, rest, "summary", <<ev>>, "awaitSummary")
                      /\ locals' = [locals EXCEPT ![r].text = t]
                      /\ UNCHANGED responses
  /\ UNCHANGED <<Frame, hasFile>>

\* lines 124-161, with the inner catch of lines 135-138
ExtractGC(r) ==
  /\ variant = "gc"
  /\ \E out \in ExtractOutcomes : AfterExtract(r, out, ExtractionFailedBody(out.err), FALSE)

\* lines 271-293, with the catch of lines 313-316
ExtractEnv(r) ==
  /\ variant = "env"
  /\ \E out \in ExtractOutcomes : AfterExtract(r, out, FailedBody, FALSE)

\* lines 387-415, with the catch of lines 452-455; fs.unlinkSync at line 398
\* runs only when the extraction resolved
ExtractKey(r) ==
  /\ variant = "key"
  /\ \E out \in ExtractOutcomes : AfterExtract(r, out, FailedBody, TRUE)

(* --------------------- after each generation call --------------------- *)

AwaitState(call) ==
  CASE call = "summary" -> "awaitSummary"
    [] call = "keyTerms" -> "awaitKeyTerms"
    [] call = "risk" -> "awaitRisk"

\* the handler's continuation once generation call `call` has settled
AfterGenerate(r, call, out, errBody) ==
  /\ pc[r] = AwaitState(call) /\ call \in outstanding[r]
  /\ LET rest == Settled(outstanding[r], call) IN
     IF out.kind = "throw"
       THEN /\ Reply(r, 500, errBody)
            /\ outstanding' = [outstanding EXCEPT ![r] = rest]
            /\ log' = [log EXCEPT ![r] = Append(@, Event("throw", call, out.err))]
       ELSE LET v == OrElse(FirstText(call, out.shape), Fallback(call))
                ev == Event("return", call, Segment(out.shape)) IN
            CASE call = "summary" ->
                   /\ Issue(r, rest, "keyTerms", <<ev>>, "awaitKeyTerms")
                   /\ locals' = [locals EXCEPT ![r].summary = v]
                   /\ UNCHANGED responses
              [] call = "keyTerms" ->
                   /\ Issue(r, rest, "risk", <<ev>>, "awaitRisk")
                   /\ locals' = [locals EXCEPT ![r].keyTerms = v]
                   /\ UNCHANGED responses
              [] call = "risk" ->
                   /\ Reply(r, 200, SuccessBody(locals[r], v))
                   /\ outstanding' = [outstanding EXCEPT ![r] = rest]
                   /\ log' = [log EXCEPT ![r] = Append(@, ev)]
  /\ UNCHANGED <<Frame, hasFile, tmpFiles>>

\* lines 161-165, catch at 191-194
SummaryGC(r) ==
  /\ variant = "gc"
  /\ \E out \in GenOutcomes : AfterGenerate(r, "summary", out, GenerationFailedBody(out.err))

\* lines 165-186, catch at 191-194
KeyTermsGC(r) ==
  /\ variant = "gc"
  /\ \E out \in GenOutcomes : AfterGenerate(r, "keyTerms", out, GenerationFailedBody(out.err))

\* lines 186-190, catch at 191-194
RiskGC(r) ==
  /\ variant = "gc"
  /\ \E out \in GenOutcomes : AfterGenerate(r, "risk", out, GenerationFailedBody(out.err))

\* lines 289-301, catch at 313-316
SummaryEnv(r) ==
  /\ variant = "env"
  /\ \E out \in GenOutcomes : AfterGenerate(r, "summary", out, FailedBody)

\* lines 297-309, catch at 313-316
KeyTermsEnv(r) ==
  /\ variant = "env"
  /\ \E out \in GenOutcomes : AfterGenerate(r, "keyTerms", out, FailedBody)

\* lines 305-312, catch at 313-316
RiskEnv(r) ==
  /\ variant = "env"
  /\ \E out \in GenOutcomes : AfterGenerate(r, "risk", out, FailedBody)

\* lines 415-429, catch at 452-455
SummaryKey(r) ==
  /\ variant = "key"
  /\ \E out \in GenOutcomes : AfterGenerate(r, "summary", out, FailedBody)

\* lines 429-443, catch at 452-455
KeyTermsKey(r) ==
  /\ variant = "key"
  /\ \E out \in GenOutcomes : AfterGenerate(r, "keyTerms", out, FailedBody)

\* lines 443-451, catch at 452-455
RiskKey(r) ==
  /\ variant = "key"
  /\ \E out \in GenOutcomes : AfterGenerate(r, "risk", out, FailedBody)

(* ---------------------------- specification --------------------------- *)

\* the steps of request r that fire when one of its remote calls settles
RemoteSettles(r) ==
  \/ ExtractGC(r) \/ SummaryGC(r) \/ KeyTermsGC(r) \/ RiskGC(r)
  \/ ExtractEnv(r) \/ SummaryEnv(r) \/ KeyTermsEnv(r) \/ RiskEnv(r)
  \/ ExtractKey(r) \/ SummaryKey(r) \/ KeyTermsKey(r) \/ RiskKey(r)

Next ==
  \E r \in Reqs :
    \/ UploadGC(r) \/ UploadEnv(r) \/ UploadKey(r)
    \/ RemoteSettles(r)

Spec == Init /\ [][Next]_vars

\* every remote call that has been issued eventually resolves or rejects
LiveSpec == Spec /\ \A r \in Reqs : WF_vars(RemoteSettles(r))

(* ------------------------- reading the history ------------------------ *)

Answered(r) == pc[r] = "done"

\* request r was answered once, with this status
AnsweredWith(r, status) ==
  /\ Answered(r)
  /\ Len(responses[r]) = 1
  /\ responses[r][1].status = status

Body(r) == responses[r][1].body

IsGenIssue(e) == e.ev = "issue" /\ e.call \in GenCalls

\* the generation calls request r has issued, in order
GenIssued(r) ==
  LET issues == SelectSeq(log[r], IsGenIssue) IN [i \in 1..Len(issues) |-> issues[i].call]

Logged(r, ev, call) == \E i \in 1..Len(log[r]) : log[r][i].ev = ev /\ log[r][i].call = call

ResultFields == {"text", "summary", "keyTerms", "riskAssessment"}

FieldOf(call) ==
  CASE call = "summary" -> "summary"
    [] call = "keyTerms" -> "keyTerms"
    [] call = "risk" -> "riskAssessment"

\* the call the handler issues once `call` has returned
CallAfter(call) ==
  CASE call = "extract" -> "summary"
    [] call = "summary" -> "keyTerms"
    [] call = "keyTerms" -> "risk"

EmptyClasses == {"noDocument", "noText", "blank"}

\* the placeholder the interface documents for each result field
Placeholder(field) ==
  CASE field = "summary" -> "Summary not generated"
    [] field = "keyTerms" -> "Key terms not extracted"
    [] field = "riskAssessment" -> "Risk assessment not generated"

(* ------------------------------- claims -------------------------------- *)

\* C1: every answered request that carried no file part got 400 with
\* {error: 'No file uploaded'}, and no remote call was made for it.
C1_MissingFileIs400 ==
  \A r \in Reqs :
    (Answered(r) /\ ~hasFile[r]) =>
      /\ AnsweredWith(r, 400)
      /\ Body(r) = NoFileBody
      /\ log[r] = <<>>

\* C2: once the extraction of a request has resolved with a text that is
\* empty after trimming (or with no document, or no text field), the request
\* is answered 400 'Document contained no extractable text.' and it has
\* issued no generation call.
C2_EmptyTextShortCircuits ==
  \A r \in Reqs :
    \A i \in 1..Len(log[r]) :
      (log[r][i].ev = "return" /\ log[r][i].call = "extract" /\ log[r][i].info \in EmptyClasses) =>
        /\ AnsweredWith(r, 400)
        /\ Body(r) = EmptyTextBody
        /\ GenIssued(r) = <<>>

C2_Witness ==
  \E r \in Reqs :
    /\ Answered(r)
    /\ Logged(r, "return", "extract")
    /\ log[r][Len(log[r])].info = "blank"

\* C3: a request answered 200 has a body of exactly the four fields text,
\* summary, keyTerms and riskAssessment, and issued exactly three generation
\* calls: summary, then key terms, then risk.
C3_SuccessShape ==
  \A r \in Reqs :
    AnsweredWith(r, 200) =>
      /\ DOMAIN Body(r) = ResultFields
      /\ GenIssued(r) = <<"summary", "keyTerms", "risk">>

C3_Witness == \E r \in Reqs : AnsweredWith(r, 200) /\ Body(r).text = <<" ", "a", "\n">>

\* C4 as stated: with the credentials unset, every answered upload request got
\* the 500 misconfiguration response and no remote call was made.
C4_UnsetCredentialsAlways500 ==
  \A r \in Reqs :
    (credentials = NULL /\ Answered(r)) =>
      /\ AnsweredWith(r, 500)
      /\ Body(r) = MisconfiguredBody
      /\ log[r] = <<>>

\* C4 as amended: with the credentials unset, every answered upload request
\* that carried a file got the 500 misconfiguration response, and no request
\* at all has a remote call issued for it.
C4_UnsetCredentialsWithFile500 ==
  credentials = NULL =>
    \A r \in Reqs :
      /\ log[r] = <<>> /\ outstanding[r] = {}
      /\ (Answered(r) /\ hasFile[r]) => (AnsweredWith(r, 500) /\ Body(r) = MisconfiguredBody)

C4_Witness == credentials = NULL /\ \E r \in Reqs : hasFile[r] /\ AnsweredWith(r, 500)

\* C5: once a generation call of a request has thrown, the request is
\* answered 500 with the failing call's diagnostic as detail, the body has
\* none of the result fields, and nothing was issued after the failing call.
C5_GenerationFailureEchoesDetail ==
  \A r \in Reqs :
    \A i \in 1..Len(log[r]) :
      (log[r][i].ev = "throw" /\ log[r][i].call \in GenCalls) =>
        /\ AnsweredWith(r, 500)
        /\ "detail" \in DOMAIN Body(r)
        /\ Body(r).detail = Detail(log[r][i].info)
        /\ DOMAIN Body(r) \cap ResultFields = {}
        /\ i = Len(log[r])

\* C6: once the extraction call of a request has thrown, the request is
\* answered 500 with the upstream diagnostic as detail and has issued no
\* generation call; the 400 empty-text response is sent only after an
\* extraction that resolved.
C6_ExtractionFailureEchoesDetail ==
  \A r \in Reqs :
    /\ Logged(r, "throw", "extract") =>
         /\ AnsweredWith(r, 500)
         /\ "detail" \in DOMAIN Body(r)
         /\ Body(r).detail = Detail(log[r][Len(log[r])].info)
         /\ GenIssued(r) = <<>>
    /\ (AnsweredWith(r, 400) /\ Body(r) = EmptyTextBody) => Logged(r, "return", "extract")

\* C7: when a generation call has resolved without a first text segment, the
\* field it feeds holds that call site's placeholder, the next generation call
\* was issued right after it, and the request, unless a later call threw, is
\* answered 200 with the placeholder in that field.
C7_PlaceholderOnAbsentSegment ==
  \A r \in Reqs :
    \A i \in 1..Len(log[r]) :
      LET e == log[r][i] IN
      (e.ev = "return" /\ e.call \in GenCalls /\ e.info = "absent") =>
        /\ (e.call # "risk") =>
             /\ Len(log[r]) > i
             /\ log[r][i + 1] = Event("issue", CallAfter(e.call), "-")
        /\ (~Answered(r) /\ e.call = "summary") => locals[r].summary = Placeholder("summary")
        /\ (~Answered(r) /\ e.call = "keyTerms") => locals[r].keyTerms = Placeholder("keyTerms")
        /\ (Answered(r) /\ \A j \in 1..Len(log[r]) : log[r][j].ev # "throw") =>
             /\ AnsweredWith(r, 200)
             /\ Body(r)[FieldOf(e.call)] = Placeholder(FieldOf(e.call))

C7_Witness ==
  \E r \in Reqs :
    /\ AnsweredWith(r, 200)
    /\ \E i \in 1..Len(log[r]) : log[r][i].call = "keyTerms" /\ log[r][i].info = "absent"

\* C8: in the key-file variant, once a request that carried a file has been
\* answered, its temporary file is gone.
C8_TempFileRemoved ==
  \A r \in Reqs :
    (variant = "key" /\ Answered(r) /\ hasFile[r]) => r \notin tmpFiles

\* C9: whatever the interleaving, a request has at most one remote call
\* outstanding, and only while its handler is suspended on it; its first call
\* is the extraction, every call is issued right after the previous one
\* returned, and every result follows the issue of its own call.
C9_SequentialPerRequest ==
  \A r \in Reqs :
    /\ Cardinality(outstanding[r]) <= 1
    /\ (outstanding[r] # {}) <=> (pc[r] \notin {"idle", "done"})
    /\ \A i \in 1..Len(log[r]) :
         LET e == log[r][i] IN
         IF e.ev = "issue"
           THEN IF i = 1 THEN e.call = "extract"
                ELSE /\ log[r][i - 1].ev = "return"
                     /\ e.call = CallAfter(log[r][i - 1].call)
           ELSE /\ i > 1
                /\ log[r][i - 1] = Event("issue", e.call, "-")

C9_Witness ==
  \E r1, r2 \in Reqs :
    /\ pc[r1] = "awaitRisk" /\ outstanding[r1] = {"risk"}
    /\ pc[r2] = "awaitExtract" /\ outstanding[r2] = {"extract"}

\* C10: when every issued remote call eventually settles, every request that
\* has arrived is eventually answered; no request is ever answered twice, and
\* a request that has arrived and is not answered has a remote call outstanding.
C10_EveryRequestAnswered ==
  /\ \A r \in Reqs : (pc[r] # "idle") ~> (Answered(r) /\ Len(responses[r]) = 1)
  /\ [](\A r \in Reqs :
          /\ Len(responses[r]) <= 1
          /\ (pc[r] \notin {"idle", "done"}) => outstanding[r] # {})

C10_Witness ==
  \A r \in Reqs : Answered(r) /\ Len(responses[r]) = 1 /\ Len(log[r]) >= 2

====
